---- MODULE Spec2Model ----
(***************************************************************************)
(* Model of the sat-uy backend: the on-disk TLE store with its refresh     *)
(* pipeline (backend/tle_store.py), the service-level fetch with its       *)
(* in-memory cache (backend/services/tle_service.py), the resolver         *)
(* get_satellite_by_key, the age functions, the pass reduction of          *)
(* compute_passes_mvd and the sampling of compute_track and                *)
(* compute_track_now.                                                      *)
(*                                                                         *)
(* The store model counts time in whole minutes; the model of the age      *)
(* functions counts fractions of a second and the ground-track model       *)
(* counts seconds.  A text line is the sequence of its                     *)
(* whitespace-delimited tokens plus a flag for leading whitespace; a token *)
(* is a sequence of one-character strings.  A file is a record             *)
(* [exists, text, mtime]; a missing value (Python None, a raised           *)
(* exception inside a parser) is the empty sequence and a present value v  *)
(* is <<v>>.                                                               *)
(***************************************************************************)
EXTENDS Integers, Sequences, FiniteSets, TLC

(* ---------------------------------------------------------------------- *)
(* Bounds of the model                                                     *)
(* ---------------------------------------------------------------------- *)
NThreads == 2
MaxTicks == 1
MaxCalls == 2

Threads == 1..NThreads

(* ---------------------------------------------------------------------- *)
(* Program constants                                                       *)
(* ---------------------------------------------------------------------- *)
TLE_TTL == 360
_REFRESH_COOLDOWN == 2
_CACHE_TTL == 360

ISS == <<"I", "S", "S">>
HST == <<"H", "S", "T">>

SATELLITES == (ISS :> 25544) @@ (HST :> 20580)

Catnrs == {SATELLITES[k] : k \in DOMAIN SATELLITES}

(* ---------------------------------------------------------------------- *)
(* Strings                                                                 *)
(* ---------------------------------------------------------------------- *)
DigitChars == {"0", "1", "2", "3", "4", "5", "6", "7", "8", "9"}

DigitVal(ch) ==
    CASE ch = "0" -> 0 [] ch = "1" -> 1 [] ch = "2" -> 2 [] ch = "3" -> 3
      [] ch = "4" -> 4 [] ch = "5" -> 5 [] ch = "6" -> 6 [] ch = "7" -> 7
      [] ch = "8" -> 8 [] ch = "9" -> 9

DigitChar(d) ==
    CASE d = 0 -> "0" [] d = 1 -> "1" [] d = 2 -> "2" [] d = 3 -> "3"
      [] d = 4 -> "4" [] d = 5 -> "5" [] d = 6 -> "6" [] d = 7 -> "7"
      [] d = 8 -> "8" [] d = 9 -> "9"

IsDigit(ch) == ch \in DigitChars

(* int(s) for a non-empty string of digits *)
RECURSIVE IntOfDigits(_)
IntOfDigits(s) ==
    IF s = <<>> THEN 0
    ELSE IntOfDigits(SubSeq(s, 1, Len(s) - 1)) * 10 + DigitVal(s[Len(s)])

(* str(n) for a natural number *)
RECURSIVE StrOfInt(_)
StrOfInt(n) ==
    IF n < 10 THEN <<DigitChar(n)>>
    ELSE StrOfInt(n \div 10) \o <<DigitChar(n % 10)>>

UpperChar(ch) ==
    CASE ch = "i" -> "I" [] ch = "s" -> "S" [] ch = "h" -> "H"
      [] ch = "t" -> "T" [] ch = "x" -> "X" [] OTHER -> ch

(* str.upper() *)
Upper(s) == [i \in 1..Len(s) |-> UpperChar(s[i])]

RECURSIVE LStrip(_)
LStrip(s) == IF s # <<>> /\ s[1] = " " THEN LStrip(Tail(s)) ELSE s

RECURSIVE RStrip(_)
RStrip(s) ==
    IF s # <<>> /\ s[Len(s)] = " " THEN RStrip(SubSeq(s, 1, Len(s) - 1)) ELSE s

(* str.strip() on a key *)
StripKey(s) == RStrip(LStrip(s))

(* ---------------------------------------------------------------------- *)
(* Text lines                                                              *)
(* ---------------------------------------------------------------------- *)
Line(lead, toks) == [lead |-> lead, toks |-> toks]

(* ln.strip() *)
Strip(ln) == [ln EXCEPT !.lead = FALSE]

(* a line that is empty after strip() *)
IsBlank(ln) == ln.toks = <<>>

(* Python truthiness of a string: "" is falsy, "  " is truthy *)
Truthy(ln) == ln.lead \/ ln.toks # <<>>

(* s.startswith("1 "), s.startswith("2 ") *)
StartsWith(ln, d) == ~ln.lead /\ Len(ln.toks) >= 2 /\ ln.toks[1] = <<d>>

(* [ln.strip() for ln in text.splitlines() if ln.strip()] *)
NonBlankLines(text) ==
    LET stripped == [i \in 1..Len(text) |-> Strip(text[i])]
        keep(ln) == ~IsBlank(ln)
    IN SelectSeq(stripped, keep)

(* f"CATNR {catnr}" *)
Placeholder(catnr) == Line(FALSE, << <<"C", "A", "T", "N", "R">>, StrOfInt(catnr) >>)

TLE(name, line1, line2) == [name |-> name, line1 |-> line1, line2 |-> line2]

(* f"{name}\n{line1}\n{line2}\n" *)
TleText(tle) == <<tle.name, tle.line1, tle.line2>>

(* tle_store._parse_catnr_from_line1: <<n>>, or <<>> when it raises *)
_parse_catnr_from_line1(line1) ==
    IF Len(line1.toks) < 2 THEN <<>>
    ELSE LET token == line1.toks[2]
             digits == SelectSeq(token, IsDigit)
         IN IF digits = <<>> THEN <<>> ELSE <<IntOfDigits(digits)>>

(* int(line1.split()[1]) of tle_service: <<n>>, or <<>> when it raises *)
StrictCatnr(line1) ==
    IF Len(line1.toks) < 2 THEN <<>>
    ELSE LET token == line1.toks[2]
         IN IF token = <<>> \/ \E i \in 1..Len(token) : ~IsDigit(token[i])
            THEN <<>> ELSE <<IntOfDigits(token)>>

(* ---------------------------------------------------------------------- *)
(* Parsers of tle_store.py                                                 *)
(* ---------------------------------------------------------------------- *)

(* _read_tle_file without the comparison of the embedded catnr *)
ReadTleFileAnyCatnr(text, catnr) ==
    LET lines == NonBlankLines(text)
    IN IF Len(lines) < 3 THEN <<>>
       ELSE IF ~StartsWith(lines[2], "1") \/ ~StartsWith(lines[3], "2") THEN <<>>
       ELSE IF _parse_catnr_from_line1(lines[2]) = <<>> THEN <<>>
       ELSE <<TLE(lines[1], lines[2], lines[3])>>

(* _read_tle_file on the text of an existing file: <<tle>>, or <<>> when  *)
(* it raises ValueError("TLE invalido ...")                               *)
_read_tle_file(text, catnr) ==
    LET lines == NonBlankLines(text)
    IN IF Len(lines) < 3 THEN <<>>
       ELSE LET name == lines[1]
                line1 == lines[2]
                line2 == lines[3]
                found == _parse_catnr_from_line1(line1)
            IN IF ~StartsWith(line1, "1") \/ ~StartsWith(line2, "2") THEN <<>>
               ELSE IF found = <<>> THEN <<>>
               ELSE IF found[1] # catnr THEN <<>>
               ELSE <<TLE(name, line1, line2)>>

(* the loop body of _parse_tle_text_any at 1-based position i *)
LocatorHit(lines, i, catnr) ==
    /\ StartsWith(lines[i], "1")
    /\ _parse_catnr_from_line1(lines[i]) = <<catnr>>
    /\ StartsWith(lines[i + 1], "2")

(* tle_store._parse_tle_text_any: range(1, len(lines) - 1) is 2..Len-1    *)
(* in 1-based positions                                                    *)
_parse_tle_text_any(text, catnr) ==
    LET lines == NonBlankLines(text)
        hits == {i \in 2..(Len(lines) - 1) : LocatorHit(lines, i, catnr)}
    IN IF hits = {} THEN <<>>
       ELSE LET i == CHOOSE h \in hits : \A g \in hits : h <= g
            IN <<TLE(lines[i - 1], lines[i], lines[i + 1])>>

(* ---------------------------------------------------------------------- *)
(* HTTP responses.  status 0 stands for a transport error or timeout.      *)
(* A SatNOGS body is a JSON list of items; an item is a dict whose keys    *)
(* may be missing (<<>>).  A CelesTrak body is text.                       *)
(* ---------------------------------------------------------------------- *)
Item(satname, tle0, tle1, tle2, tle) ==
    [satname |-> satname, tle0 |-> tle0, tle1 |-> tle1, tle2 |-> tle2, tle |-> tle]

JsonResp(status, okjson, data) == [status |-> status, okjson |-> okjson, data |-> data]

TextResp(status, text) == [status |-> status, text |-> text]

(* r.raise_for_status() passes *)
StatusOk(status) == status >= 200 /\ status < 300

(* _fetch_tle_from_satnogs applied to the response of its GET: <<tle>> or *)
(* <<>> (None, every exception included)                                   *)
_fetch_tle_from_satnogs(r, catnr) ==
    IF ~StatusOk(r.status) \/ ~r.okjson THEN <<>>
    ELSE IF r.data = <<>> THEN <<>>
    ELSE LET item == r.data[1]
             name == IF item.satname # <<>> /\ Truthy(item.satname[1])
                     THEN item.satname[1] ELSE Placeholder(catnr)
             parts == IF item.tle = <<>> THEN <<>> ELSE NonBlankLines(item.tle[1])
             pair == IF item.tle1 # <<>> /\ item.tle2 # <<>>
                        THEN <<item.tle1[1], item.tle2[1]>>
                     ELSE IF item.tle0 # <<>> /\ item.tle1 # <<>>
                        THEN <<item.tle0[1], item.tle1[1]>>
                     ELSE IF item.tle # <<>> /\ Len(parts) >= 2
                        THEN <<parts[1], parts[2]>>
                     ELSE <<>>
         IN IF pair = <<>> THEN <<>>
            ELSE IF ~StartsWith(pair[1], "1") \/ ~StartsWith(pair[2], "2") THEN <<>>
            ELSE IF _parse_catnr_from_line1(pair[1]) # <<catnr>> THEN <<>>
            ELSE <<TLE(name, pair[1], pair[2])>>

(* ---------------------------------------------------------------------- *)
(* Sample lines, records and responses the network and the disk can hold   *)
(* ---------------------------------------------------------------------- *)
OtherCatnr(c) == CHOOSE d \in Catnrs : d # c

TokU(c) == StrOfInt(c) \o <<"U">>

Line1(c) == Line(FALSE, << <<"1">>, TokU(c) >>)

Line2(c) == Line(FALSE, << <<"2">>, StrOfInt(c) >>)

NameOf(c) == Line(FALSE, << CHOOSE k \in DOMAIN SATELLITES : SATELLITES[k] = c >>)

LongNameOf(c) == Line(FALSE, << NameOf(c).toks[1], <<"Z">> >>)

SeedTle(c) == TLE(NameOf(c), Line1(c), Line2(c))

SatnogsResponses ==
    {JsonResp(0, FALSE, <<>>), JsonResp(500, TRUE, <<>>), JsonResp(200, FALSE, <<>>),
     JsonResp(200, TRUE, <<>>)}
    \cup {JsonResp(200, TRUE, <<Item(<<LongNameOf(d)>>, <<>>, <<Line1(d)>>, <<Line2(d)>>, <<>>)>>)
            : d \in Catnrs}
    \cup {JsonResp(200, TRUE, <<Item(<<>>, <<Line1(25544)>>, <<Line2(25544)>>, <<>>, <<>>)>>),
          JsonResp(200, TRUE, <<Item(<<Line(TRUE, <<>>)>>, <<>>, <<Line1(25544)>>,
                                     <<Line2(25544)>>, <<>>)>>),
          JsonResp(200, TRUE, <<Item(<<>>, <<>>, <<>>, <<>>,
                                     << <<Line(TRUE, Line1(25544).toks), Line2(25544)>> >>)>>),
          JsonResp(200, TRUE, <<Item(<<>>, <<>>, <<Line(TRUE, Line1(25544).toks)>>,
                                     <<Line2(25544)>>, <<>>)>>),
          JsonResp(200, TRUE, <<Item(<<>>, <<>>, <<Line(FALSE, << <<"1">>, <<"U">> >>)>>,
                                     <<Line2(25544)>>, <<>>)>>)}

(* a body of tle.ivanstanojevic.me is a JSON dict with optional keys *)
ApiResp(status, okjson, name, line1, line2) ==
    [status |-> status, okjson |-> okjson, name |-> name, line1 |-> line1,
     line2 |-> line2]

TleapiResponses ==
    {ApiResp(0, FALSE, <<>>, <<>>, <<>>), ApiResp(500, TRUE, <<>>, <<>>, <<>>),
     ApiResp(200, FALSE, <<>>, <<>>, <<>>),
     ApiResp(200, TRUE, <<NameOf(25544)>>, <<Line1(25544)>>, <<>>),
     ApiResp(200, TRUE, <<>>, <<Line2(25544)>>, <<Line2(25544)>>)}
    \cup {ApiResp(200, TRUE, <<NameOf(d)>>, <<Line1(d)>>, <<Line2(d)>>) : d \in Catnrs}

(* line 1 with a bare catalog number, as int() of tle_service needs it *)
Line1Bare(c) == Line(FALSE, << <<"1">>, StrOfInt(c) >>)

CelestrakResponses ==
    {TextResp(0, <<>>), TextResp(403, <<>>), TextResp(500, <<>>),
     TextResp(200, <<Line(FALSE, << <<"h", "t", "m", "l">> >>)>>),
     TextResp(200, <<Line1(25544), Line2(25544)>>),
     TextResp(200, TleText(SeedTle(20580)) \o <<Line(FALSE, <<>>)>> \o TleText(SeedTle(25544)))}
    \cup {TextResp(200, TleText(SeedTle(d))) : d \in Catnrs}

(* what the service-level fetch can receive from CelesTrak *)
ServiceCelestrakResponses ==
    CelestrakResponses
    \cup {TextResp(200, <<NameOf(25544), Line1Bare(25544), Line2(25544)>>)}

(* ---------------------------------------------------------------------- *)
(* State                                                                   *)
(* ---------------------------------------------------------------------- *)
VARIABLES
    now,                     \* the wall clock, _now_utc()
    ticks,                   \* number of clock advances so far
    calls,                   \* number of operations started so far
    tleFile,                 \* catnr -> the file tle_<catnr>.txt
    tmpFile,                 \* catnr -> the file tle_<catnr>.tmp
    metaFile,                \* catnr -> the file tle_<catnr>.meta.json
    _LAST_REFRESH_ATTEMPT,   \* catnr -> <<>> or <<time of the last attempt>>
    _CACHE,                  \* catnr -> <<>> or <<cache entry>> of tle_service
    pc,                      \* thread -> position in the code
    op,                      \* thread -> the operation the request runs
    loc,                     \* thread -> local variables of the running code
    contacts,                \* thread -> sources contacted by the running call
    snap,                    \* thread -> the store as it was when the call started
    result                   \* thread -> outcome of the call once it is done

vars == <<now, ticks, calls, tleFile, tmpFile, metaFile, _LAST_REFRESH_ATTEMPT,
          _CACHE, pc, op, loc, contacts, snap, result>>

File(text, mtime) == [exists |-> TRUE, text |-> text, mtime |-> mtime]

NoFile == [exists |-> FALSE, text |-> <<>>, mtime |-> 0]

Meta(catnr, fetched, source) ==
    [catnr |-> catnr, fetched_at_utc |-> fetched, source |-> source]

(* a metadata file holds JSON text: <<dict>>, or <<>> for text that        *)
(* json.loads rejects (an empty file)                                      *)
MetaFile(json) == [exists |-> TRUE, json |-> json]

NoMetaFile == [exists |-> FALSE, json |-> <<>>]

NoLocals ==
    [catnr |-> 0, key |-> <<>>, allow |-> FALSE, now |-> 0, last |-> <<>>,
     cand |-> <<>>, source |-> "", meta |-> <<>>, fd |-> "none", ok |-> FALSE,
     url |-> 0]

NoResult == [kind |-> "none", val |-> "", handle |-> <<>>, catnr |-> 0]

Return(val) == [kind |-> "return", val |-> val, handle |-> <<>>, catnr |-> 0]

Raise(val) == [kind |-> "raise", val |-> val, handle |-> <<>>, catnr |-> 0]

Store == [tle |-> tleFile, meta |-> metaFile, last |-> _LAST_REFRESH_ATTEMPT]

(* what data/ can hold when the process starts.  For the first satellite: *)
(* nothing, a slot left by an earlier run (fresh or older than the TTL),   *)
(* or a file put there by hand (valid, of another satellite, or cut        *)
(* short).  The second satellite has never been fetched.                   *)
SeedSlots(c) ==
    IF c = 25544
    THEN {<<NoFile, NoMetaFile>>,
          <<File(TleText(SeedTle(c)), 0), MetaFile(<<Meta(c, 0, "seed")>>)>>,
          <<File(TleText(SeedTle(c)), 0 - TLE_TTL - 1),
            MetaFile(<<Meta(c, 0 - TLE_TTL - 1, "seed")>>)>>,
          <<File(TleText(SeedTle(c)), 0), NoMetaFile>>,
          <<File(TleText(SeedTle(OtherCatnr(c))), 0), NoMetaFile>>,
          <<File(<<NameOf(c)>>, 0 - TLE_TTL - 1), NoMetaFile>>}
    ELSE {<<NoFile, NoMetaFile>>}

Init ==
    /\ now = 0
    /\ ticks = 0
    /\ calls = 0
    /\ \E seed \in [Catnrs -> UNION {SeedSlots(c) : c \in Catnrs}] :
          /\ \A c \in Catnrs : seed[c] \in SeedSlots(c)
          /\ tleFile = [c \in Catnrs |-> seed[c][1]]
          /\ metaFile = [c \in Catnrs |-> seed[c][2]]
    /\ tmpFile = [c \in Catnrs |-> NoFile]
    /\ _LAST_REFRESH_ATTEMPT = [c \in Catnrs |-> <<>>]
    /\ _CACHE = [c \in Catnrs |-> <<>>]
    /\ pc = [t \in Threads |-> "idle"]
    /\ op = [t \in Threads |-> "none"]
    /\ loc = [t \in Threads |-> NoLocals]
    /\ contacts = [t \in Threads |-> <<>>]
    /\ snap = [t \in Threads |-> Store]
    /\ result = [t \in Threads |-> NoResult]

(* ---------------------------------------------------------------------- *)
(* The clock                                                               *)
(* ---------------------------------------------------------------------- *)
TickSteps == {1, TLE_TTL}

(* the clock advances between requests: a request lasts well under one    *)
(* clock unit, every source attempt being cut by a 10 second timeout       *)
Tick ==
    /\ ticks < MaxTicks
    /\ \A t \in Threads : pc[t] = "idle"
    /\ \E d \in TickSteps : now' = now + d
    /\ ticks' = ticks + 1
    /\ UNCHANGED <<calls, tleFile, tmpFile, metaFile, _LAST_REFRESH_ATTEMPT, _CACHE,
                   pc, op, loc, contacts, snap, result>>

(* ---------------------------------------------------------------------- *)
(* Requests.  A request thread runs one operation at a time.               *)
(* ---------------------------------------------------------------------- *)
Keys == {ISS, <<" ", "i", "s", "S", " ">>, <<"h", "s", "t">>, <<"I", " ", "S", "S">>}

Begin(t, o, p, l) ==
    /\ pc[t] = "idle"
    /\ calls < MaxCalls
    /\ calls' = calls + 1
    /\ op' = [op EXCEPT ![t] = o]
    /\ pc' = [pc EXCEPT ![t] = p]
    /\ loc' = [loc EXCEPT ![t] = l]
    /\ contacts' = [contacts EXCEPT ![t] = <<>>]
    /\ snap' = [snap EXCEPT ![t] = Store]
    /\ result' = [result EXCEPT ![t] = NoResult]
    /\ UNCHANGED <<now, ticks, tleFile, tmpFile, metaFile, _LAST_REFRESH_ATTEMPT, _CACHE>>

(* the call has returned or raised: its outcome is set and the thread     *)
(* stays at "done" until the request ends                                  *)
Done(t, r) ==
    /\ pc' = [pc EXCEPT ![t] = "done"]
    /\ result' = [result EXCEPT ![t] = r]

Goto(t, p) == pc' = [pc EXCEPT ![t] = p]

(* POST /tle/refresh-all calls refresh_tle_best_effort(catnr) *)
StartRefresh(t, c) ==
    Begin(t, "refresh", "r_now", [NoLocals EXCEPT !.catnr = c])

(* POST /tle/refresh calls refresh_tle_or_raise(catnr) *)
StartRefreshOrRaise(t, c) ==
    Begin(t, "refresh_or_raise", "r_now", [NoLocals EXCEPT !.catnr = c])

(* the services call get_satellite_by_key(key, allow_network) *)
StartResolve(t, key, allow) ==
    Begin(t, "resolve", "g_key", [NoLocals EXCEPT !.key = key, !.allow = allow])

Finish(t) ==
    /\ pc[t] = "done"
    /\ pc' = [pc EXCEPT ![t] = "idle"]
    /\ op' = [op EXCEPT ![t] = "none"]
    /\ loc' = [loc EXCEPT ![t] = NoLocals]
    /\ contacts' = [contacts EXCEPT ![t] = <<>>]
    /\ snap' = [snap EXCEPT ![t] = Store]
    /\ result' = [result EXCEPT ![t] = NoResult]
    /\ UNCHANGED <<now, ticks, calls, tleFile, tmpFile, metaFile,
                   _LAST_REFRESH_ATTEMPT, _CACHE>>

(* ---------------------------------------------------------------------- *)
(* refresh_tle_best_effort                                                 *)
(* ---------------------------------------------------------------------- *)

(* the gate with the window one unit short *)
CooldownGateShort(last, n) == last # <<>> /\ (n - last[1]) < _REFRESH_COOLDOWN - 1

(* `last and (now - last) < _REFRESH_COOLDOWN' *)
CooldownGate(last, n) == last # <<>> /\ (n - last[1]) < _REFRESH_COOLDOWN

(* now = _now_utc(); last = _LAST_REFRESH_ATTEMPT.get(catnr) *)
RefreshReadGate(t) ==
    /\ pc[t] = "r_now"
    /\ loc' = [loc EXCEPT ![t].now = now,
                          ![t].last = _LAST_REFRESH_ATTEMPT[loc[t].catnr]]
    /\ Goto(t, "r_gate")
    /\ UNCHANGED <<now, ticks, calls, tleFile, tmpFile, metaFile,
                   _LAST_REFRESH_ATTEMPT, _CACHE, op, contacts, snap, result>>

(* the cooldown test, then _LAST_REFRESH_ATTEMPT[catnr] = now *)
RefreshGate(t) ==
    /\ pc[t] = "r_gate"
    /\ IF CooldownGate(loc[t].last, loc[t].now)
       THEN /\ loc' = [loc EXCEPT ![t].ok = FALSE]
            /\ Goto(t, "r_ret")
            /\ UNCHANGED _LAST_REFRESH_ATTEMPT
       ELSE /\ _LAST_REFRESH_ATTEMPT' =
                  [_LAST_REFRESH_ATTEMPT EXCEPT ![loc[t].catnr] = <<loc[t].now>>]
            /\ Goto(t, "r_satnogs")
            /\ UNCHANGED loc
    /\ UNCHANGED <<now, ticks, calls, tleFile, tmpFile, metaFile, _CACHE,
                   op, contacts, snap, result>>

(* satnogs = _fetch_tle_from_satnogs(catnr) *)
RefreshSatnogs(t) ==
    /\ pc[t] = "r_satnogs"
    /\ \E r \in SatnogsResponses :
         LET satnogs == _fetch_tle_from_satnogs(r, loc[t].catnr)
         IN IF satnogs # <<>>
            THEN /\ loc' = [loc EXCEPT ![t].cand = satnogs, ![t].source = "satnogs"]
                 /\ Goto(t, "w_open")
            ELSE /\ loc' = [loc EXCEPT ![t].url = 1]
                 /\ Goto(t, "r_cel")
    /\ contacts' = [contacts EXCEPT ![t] = Append(@, "satnogs")]
    /\ UNCHANGED <<now, ticks, calls, tleFile, tmpFile, metaFile,
                   _LAST_REFRESH_ATTEMPT, _CACHE, op, snap, result>>

(* the two hostnames in the other order *)
CelestrakUrlsSwapped == <<"celestrak.com", "celestrak.org">>

CelestrakUrls == <<"celestrak.org", "celestrak.com">>

(* one round of the loop of _fetch_tle_from_celestrak: "hit" (return the   *)
(* parsed record), "next" (continue with the next url) or "none" (the      *)
(* exception handler returns None)                                         *)
CelestrakRound(resp, catnr) ==
    IF resp.status = 0 THEN "none"
    ELSE IF resp.status = 403 THEN "next"
    ELSE IF ~StatusOk(resp.status) THEN "none"
    ELSE IF _parse_tle_text_any(resp.text, catnr) # <<>> THEN "hit"
    ELSE "next"

(* cel = _fetch_tle_from_celestrak(catnr), one url per step *)
RefreshCelestrak(t) ==
    /\ pc[t] = "r_cel"
    /\ \E resp \in CelestrakResponses :
         LET round == CelestrakRound(resp, loc[t].catnr)
         IN IF round = "hit"
            THEN /\ loc' = [loc EXCEPT
                              ![t].cand = _parse_tle_text_any(resp.text, loc[t].catnr),
                              ![t].source = "celestrak"]
                 /\ Goto(t, "w_open")
            ELSE IF round = "next" /\ loc[t].url < Len(CelestrakUrls)
            THEN /\ loc' = [loc EXCEPT ![t].url = @ + 1]
                 /\ Goto(t, "r_cel")
            ELSE /\ loc' = [loc EXCEPT ![t].ok = FALSE]
                 /\ Goto(t, "r_ret")
    /\ contacts' = [contacts EXCEPT ![t] = Append(@, CelestrakUrls[loc[t].url])]
    /\ UNCHANGED <<now, ticks, calls, tleFile, tmpFile, metaFile,
                   _LAST_REFRESH_ATTEMPT, _CACHE, op, snap, result>>

(* ---------------------------------------------------------------------- *)
(* Files.  Path.write_text opens the file for writing, which creates it or *)
(* truncates it, then writes the data and closes.  loc[t].fd names where   *)
(* the file a thread holds open is now: under the temporary name "tmp",    *)
(* under the element file name "path" (after somebody's replace), or       *)
(* unlinked ("orphan").                                                    *)
(* ---------------------------------------------------------------------- *)

(* write through the open descriptor of thread t *)
WriteFd(t, text) ==
    LET c == loc[t].catnr
    IN /\ tmpFile' = IF loc[t].fd = "tmp"
                     THEN [tmpFile EXCEPT ![c] = File(text, now)] ELSE tmpFile
       /\ tleFile' = IF loc[t].fd = "path"
                     THEN [tleFile EXCEPT ![c] = File(text, now)] ELSE tleFile

(* where thread u's open file is after tmp was renamed over the element   *)
(* file of catnr c                                                         *)
FdAfterReplace(u, c) ==
    IF loc[u].catnr # c THEN loc[u].fd
    ELSE IF loc[u].fd = "tmp" THEN "path"
    ELSE IF loc[u].fd = "path" THEN "orphan"
    ELSE loc[u].fd

(* _atomic_write_tle, tmp.write_text: open(tmp, "w") *)
AtomicWriteOpen(t) ==
    /\ pc[t] = "w_open"
    /\ tmpFile' = [tmpFile EXCEPT ![loc[t].catnr] = File(<<>>, now)]
    /\ loc' = [loc EXCEPT ![t].fd = "tmp"]
    /\ Goto(t, "w_write")
    /\ UNCHANGED <<now, ticks, calls, tleFile, metaFile, _LAST_REFRESH_ATTEMPT,
                   _CACHE, op, contacts, snap, result>>

(* _atomic_write_tle, tmp.write_text: write the three lines and close *)
AtomicWriteWrite(t) ==
    /\ pc[t] = "w_write"
    /\ WriteFd(t, TleText(loc[t].cand[1]))
    /\ loc' = [loc EXCEPT ![t].fd = "none"]
    /\ Goto(t, "w_replace")
    /\ UNCHANGED <<now, ticks, calls, metaFile, _LAST_REFRESH_ATTEMPT,
                   _CACHE, op, contacts, snap, result>>

(* _atomic_write_tle, tmp.replace(path): FileNotFoundError when another   *)
(* writer has already renamed the shared temporary file away               *)
AtomicWriteReplace(t) ==
    LET c == loc[t].catnr
    IN /\ pc[t] = "w_replace"
       /\ IF tmpFile[c].exists
          THEN /\ tleFile' = [tleFile EXCEPT ![c] = tmpFile[c]]
               /\ tmpFile' = [tmpFile EXCEPT ![c] = NoFile]
               /\ loc' = [u \in Threads |-> [loc[u] EXCEPT !.fd = FdAfterReplace(u, c)]]
               /\ Goto(t, "m_open")
               /\ UNCHANGED result
          ELSE /\ Done(t, Raise("FileNotFoundError"))
               /\ UNCHANGED <<tleFile, tmpFile, loc>>
       /\ UNCHANGED <<now, ticks, calls, metaFile, _LAST_REFRESH_ATTEMPT,
                      _CACHE, op, contacts, snap>>

(* _write_meta: build the dict with _now_utc(), p.write_text: open(p, "w") *)
WriteMetaOpen(t) ==
    LET c == loc[t].catnr
    IN /\ pc[t] = "m_open"
       /\ loc' = [loc EXCEPT ![t].meta = <<Meta(c, now, loc[t].source)>>]
       /\ metaFile' = [metaFile EXCEPT ![c] = MetaFile(<<>>)]
       /\ Goto(t, "m_write")
       /\ UNCHANGED <<now, ticks, calls, tleFile, tmpFile, _LAST_REFRESH_ATTEMPT,
                      _CACHE, op, contacts, snap, result>>

(* the metadata is written but the success is not reported *)
WriteMetaWriteNoReturn(t) ==
    LET c == loc[t].catnr
    IN /\ pc[t] = "m_write"
       /\ metaFile' = [metaFile EXCEPT ![c] = MetaFile(loc[t].meta)]
       /\ Goto(t, "r_ret")
       /\ UNCHANGED <<now, ticks, calls, tleFile, tmpFile, _LAST_REFRESH_ATTEMPT,
                      _CACHE, op, loc, contacts, snap, result>>

(* _write_meta, p.write_text: write the JSON and close; return True *)
WriteMetaWrite(t) ==
    LET c == loc[t].catnr
    IN /\ pc[t] = "m_write"
       /\ metaFile' = [metaFile EXCEPT ![c] = MetaFile(loc[t].meta)]
       /\ loc' = [loc EXCEPT ![t].ok = TRUE]
       /\ Goto(t, "r_ret")
       /\ UNCHANGED <<now, ticks, calls, tleFile, tmpFile, _LAST_REFRESH_ATTEMPT,
                      _CACHE, op, contacts, snap, result>>

(* get_satellite_by_key gives up when the refresh it asked for failed *)
RefreshReturnChecked(t) ==
    /\ pc[t] = "r_ret"
    /\ CASE op[t] \in {"refresh", "startup"} ->
              Done(t, Return(IF loc[t].ok THEN "True" ELSE "False"))
         [] op[t] = "pass" ->
              Goto(t, "p_next") /\ UNCHANGED result
         [] op[t] = "refresh_or_raise" ->
              Done(t, IF loc[t].ok THEN Return("None") ELSE Raise("AcquisitionExhausted"))
         [] op[t] = "resolve" ->
              IF loc[t].ok THEN Goto(t, "g_exists") /\ UNCHANGED result
              ELSE Done(t, Raise("NoLocalElements"))
    /\ UNCHANGED <<now, ticks, calls, tleFile, tmpFile, metaFile,
                   _LAST_REFRESH_ATTEMPT, _CACHE, op, loc, contacts, snap>>

(* refresh_tle_best_effort returns loc[t].ok to its caller: the route     *)
(* (refresh), refresh_tle_or_raise, or get_satellite_by_key, which drops   *)
(* the value                                                               *)
RefreshReturn(t) ==
    /\ pc[t] = "r_ret"
    /\ CASE op[t] \in {"refresh", "startup"} ->
              Done(t, Return(IF loc[t].ok THEN "True" ELSE "False"))
         [] op[t] = "pass" ->
              Goto(t, "p_next") /\ UNCHANGED result
         [] op[t] = "refresh_or_raise" ->
              Done(t, IF loc[t].ok THEN Return("None") ELSE Raise("AcquisitionExhausted"))
         [] op[t] = "resolve" ->
              Goto(t, "g_exists") /\ UNCHANGED result
    /\ UNCHANGED <<now, ticks, calls, tleFile, tmpFile, metaFile,
                   _LAST_REFRESH_ATTEMPT, _CACHE, op, loc, contacts, snap>>

(* ---------------------------------------------------------------------- *)
(* get_satellite_by_key                                                    *)
(* ---------------------------------------------------------------------- *)

(* _read_meta: <<dict>>, or <<>> for None *)
_read_meta(c) == IF ~metaFile[c].exists THEN <<>> ELSE metaFile[c].json

(* _needs_refresh that takes a slot without metadata for stale *)
NeedsRefreshNoMetaStale(c) ==
    LET meta == _read_meta(c)
    IN IF meta = <<>> THEN TRUE
       ELSE (now - meta[1].fetched_at_utc) > TLE_TTL

_needs_refresh(c) ==
    LET meta == _read_meta(c)
    IN IF meta = <<>>
       THEN IF ~tleFile[c].exists THEN TRUE
            ELSE (now - tleFile[c].mtime) > TLE_TTL
       ELSE (now - meta[1].fetched_at_utc) > TLE_TTL

(* the key upper-cased but not trimmed *)
NormalizeKeyNoStrip(key) == Upper(key)

(* k = key.strip().upper() *)
NormalizeKey(key) == Upper(StripKey(key))

(* k = key.strip().upper(); the catalog lookup *)
ResolveKey(t) ==
    LET k == NormalizeKey(loc[t].key)
    IN /\ pc[t] = "g_key"
       /\ IF k \notin DOMAIN SATELLITES
          THEN Done(t, Raise("InvalidSatellite")) /\ UNCHANGED loc
          ELSE /\ loc' = [loc EXCEPT ![t].catnr = SATELLITES[k]]
               /\ Goto(t, "g_stale")
               /\ UNCHANGED result
       /\ UNCHANGED <<now, ticks, calls, tleFile, tmpFile, metaFile,
                      _LAST_REFRESH_ATTEMPT, _CACHE, op, contacts, snap>>

(* the staleness test without the allow_network flag *)
ResolveStaleNoAllow(t) ==
    /\ pc[t] = "g_stale"
    /\ IF _needs_refresh(loc[t].catnr)
       THEN Goto(t, "r_now")
       ELSE Goto(t, "g_exists")
    /\ UNCHANGED <<now, ticks, calls, tleFile, tmpFile, metaFile,
                   _LAST_REFRESH_ATTEMPT, _CACHE, op, loc, contacts, snap, result>>

(* if allow_network and _needs_refresh(catnr): refresh_tle_best_effort *)
ResolveStale(t) ==
    /\ pc[t] = "g_stale"
    /\ IF loc[t].allow /\ _needs_refresh(loc[t].catnr)
       THEN Goto(t, "r_now")
       ELSE Goto(t, "g_exists")
    /\ UNCHANGED <<now, ticks, calls, tleFile, tmpFile, metaFile,
                   _LAST_REFRESH_ATTEMPT, _CACHE, op, loc, contacts, snap, result>>

(* if not p.exists(): raise ValueError("No existe TLE local ...") *)
ResolveExists(t) ==
    /\ pc[t] = "g_exists"
    /\ IF ~tleFile[loc[t].catnr].exists
       THEN Done(t, Raise("NoLocalElements"))
       ELSE Goto(t, "g_read") /\ UNCHANGED result
    /\ UNCHANGED <<now, ticks, calls, tleFile, tmpFile, metaFile,
                   _LAST_REFRESH_ATTEMPT, _CACHE, op, loc, contacts, snap>>

(* tle = _read_tle_file(p, catnr); build the EarthSatellite; return *)
ResolveRead(t) ==
    LET c == loc[t].catnr
        tle == _read_tle_file(tleFile[c].text, c)
    IN /\ pc[t] = "g_read"
       /\ IF tle = <<>>
          THEN Done(t, Raise("MalformedElement"))
          ELSE Done(t, [kind |-> "return", val |-> "handle", handle |-> tle,
                        catnr |-> c])
       /\ UNCHANGED <<now, ticks, calls, tleFile, tmpFile, metaFile,
                      _LAST_REFRESH_ATTEMPT, _CACHE, op, loc, contacts, snap>>

(* ---------------------------------------------------------------------- *)
(* tle_service.fetch_tle_from_celestrak                                    *)
(* ---------------------------------------------------------------------- *)
CacheEntry(fetched, tle) == [fetched_at |-> fetched, tle |-> tle]

(* _cache_get: <<tle>> or <<>> *)
_cache_get(c) ==
    IF _CACHE[c] = <<>> THEN <<>>
    ELSE IF now - _CACHE[c][1].fetched_at > _CACHE_TTL THEN <<>>
    ELSE <<_CACHE[c][1].tle>>

(* _cache_set *)
_cache_set(c, tle) == _CACHE' = [_CACHE EXCEPT ![c] = <<CacheEntry(now, tle)>>]

(* _read_local_tle: <<tle>> or <<>> *)
_read_local_tle(c) ==
    IF ~tleFile[c].exists THEN <<>>
    ELSE LET lines == NonBlankLines(tleFile[c].text)
         IN IF Len(lines) < 3 THEN <<>>
            ELSE LET only_catnr == StrictCatnr(lines[2])
                 IN IF only_catnr = <<>> THEN <<>>
                    ELSE IF only_catnr[1] # c \/ ~StartsWith(lines[2], "1")
                            \/ ~StartsWith(lines[3], "2") THEN <<>>
                    ELSE <<TLE(lines[1], lines[2], lines[3])>>

(* the loop body of tle_service._parse_tle_text_any at 1-based position i *)
ServiceLocatorHit(lines, i, catnr) ==
    /\ StartsWith(lines[i], "1")
    /\ StrictCatnr(lines[i]) = <<catnr>>
    /\ StartsWith(lines[i + 1], "2")

(* tle_service._parse_tle_text_any *)
ServiceParseTleTextAny(text, catnr) ==
    LET lines == NonBlankLines(text)
        hits == {i \in 2..(Len(lines) - 1) : ServiceLocatorHit(lines, i, catnr)}
    IN IF hits = {} THEN <<>>
       ELSE LET i == CHOOSE h \in hits : \A g \in hits : h <= g
            IN <<TLE(lines[i - 1], lines[i], lines[i + 1])>>

(* _fetch_tle_from_tleapi applied to the response of its GET *)
_fetch_tle_from_tleapi(r, catnr) ==
    IF ~StatusOk(r.status) \/ ~r.okjson THEN <<>>
    ELSE LET name == IF r.name # <<>> /\ Truthy(r.name[1])
                     THEN r.name[1] ELSE Placeholder(catnr)
         IN IF r.line1 = <<>> \/ r.line2 = <<>> THEN <<>>
            ELSE IF ~Truthy(r.line1[1]) \/ ~Truthy(r.line2[1]) THEN <<>>
            ELSE IF ~StartsWith(r.line1[1], "1") \/ ~StartsWith(r.line2[1], "2")
                 THEN <<>>
            ELSE <<TLE(name, r.line1[1], r.line2[1])>>

(* a caller asks the service for the elements of catnr *)
StartFetch(t, c) ==
    Begin(t, "fetch", "f_cache", [NoLocals EXCEPT !.catnr = c])

ReturnTle(tle, c) == [kind |-> "return", val |-> "tle", handle |-> tle, catnr |-> c]

(* cached = _cache_get(catnr); if cached: return cached *)
FetchCache(t) ==
    LET c == loc[t].catnr
        cached == _cache_get(c)
    IN /\ pc[t] = "f_cache"
       /\ IF cached # <<>>
          THEN Done(t, ReturnTle(cached, c))
          ELSE Goto(t, "f_local") /\ UNCHANGED result
       /\ UNCHANGED <<now, ticks, calls, tleFile, tmpFile, metaFile,
                      _LAST_REFRESH_ATTEMPT, _CACHE, op, loc, contacts, snap>>

(* local = _read_local_tle(catnr); if local: _cache_set, return *)
FetchLocal(t) ==
    LET c == loc[t].catnr
        local == _read_local_tle(c)
    IN /\ pc[t] = "f_local"
       /\ IF local # <<>>
          THEN /\ _cache_set(c, local[1])
               /\ Done(t, ReturnTle(local, c))
          ELSE /\ Goto(t, "f_tleapi")
               /\ UNCHANGED <<_CACHE, result>>
       /\ UNCHANGED <<now, ticks, calls, tleFile, tmpFile, metaFile,
                      _LAST_REFRESH_ATTEMPT, op, loc, contacts, snap>>

(* alt = _fetch_tle_from_tleapi(catnr); if alt: _cache_set, then save *)
FetchTleapi(t) ==
    LET c == loc[t].catnr
    IN /\ pc[t] = "f_tleapi"
       /\ \E r \in TleapiResponses :
            LET alt == _fetch_tle_from_tleapi(r, c)
            IN IF alt # <<>>
               THEN /\ _cache_set(c, alt[1])
                    /\ loc' = [loc EXCEPT ![t].cand = alt]
                    /\ Goto(t, "s_open")
               ELSE /\ loc' = [loc EXCEPT ![t].url = 1]
                    /\ Goto(t, "f_cel")
                    /\ UNCHANGED _CACHE
       /\ contacts' = [contacts EXCEPT ![t] = Append(@, "tleapi")]
       /\ UNCHANGED <<now, ticks, calls, tleFile, tmpFile, metaFile,
                      _LAST_REFRESH_ATTEMPT, op, snap, result>>

(* one round of the url loop of fetch_tle_from_celestrak: every failure    *)
(* continues with the next url; after the last one the function raises     *)
FetchCelestrak(t) ==
    LET c == loc[t].catnr
    IN /\ pc[t] = "f_cel"
       /\ \E resp \in ServiceCelestrakResponses :
            LET parsed == IF StatusOk(resp.status)
                          THEN ServiceParseTleTextAny(resp.text, c) ELSE <<>>
            IN IF parsed # <<>>
               THEN /\ _cache_set(c, parsed[1])
                    /\ loc' = [loc EXCEPT ![t].cand = parsed]
                    /\ Goto(t, "s_open")
                    /\ UNCHANGED result
               ELSE IF loc[t].url < Len(CelestrakUrls)
               THEN /\ loc' = [loc EXCEPT ![t].url = @ + 1]
                    /\ Goto(t, "f_cel")
                    /\ UNCHANGED <<_CACHE, result>>
               ELSE /\ Done(t, Raise("FetchFailed"))
                    /\ UNCHANGED <<_CACHE, loc>>
       /\ contacts' = [contacts EXCEPT ![t] = Append(@, CelestrakUrls[loc[t].url])]
       /\ UNCHANGED <<now, ticks, calls, tleFile, tmpFile, metaFile,
                      _LAST_REFRESH_ATTEMPT, op, snap>>

(* _save_local_tle, p.write_text: open(p, "w") on the element file itself *)
SaveLocalOpen(t) ==
    /\ pc[t] = "s_open"
    /\ tleFile' = [tleFile EXCEPT ![loc[t].catnr] = File(<<>>, now)]
    /\ loc' = [loc EXCEPT ![t].fd = "path"]
    /\ Goto(t, "s_write")
    /\ UNCHANGED <<now, ticks, calls, tmpFile, metaFile, _LAST_REFRESH_ATTEMPT,
                   _CACHE, op, contacts, snap, result>>

(* _save_local_tle, p.write_text: write the three lines and close; return *)
SaveLocalWrite(t) ==
    /\ pc[t] = "s_write"
    /\ WriteFd(t, TleText(loc[t].cand[1]))
    /\ loc' = [loc EXCEPT ![t].fd = "none"]
    /\ Done(t, ReturnTle(loc[t].cand, loc[t].catnr))
    /\ UNCHANGED <<now, ticks, calls, metaFile, _LAST_REFRESH_ATTEMPT,
                   _CACHE, op, contacts, snap>>

(* ---------------------------------------------------------------------- *)
(* Specifications                                                          *)
(* ---------------------------------------------------------------------- *)

(* one step of refresh_tle_best_effort and of what it calls *)
RefreshStep(t) ==
    \/ RefreshReadGate(t)
    \/ RefreshGate(t)
    \/ RefreshSatnogs(t)
    \/ RefreshCelestrak(t)
    \/ AtomicWriteOpen(t)
    \/ AtomicWriteWrite(t)
    \/ AtomicWriteReplace(t)
    \/ WriteMetaOpen(t)
    \/ WriteMetaWrite(t)
    \/ RefreshReturn(t)
    \/ Finish(t)

(* one step of get_satellite_by_key *)
ResolveStep(t) ==
    \/ ResolveKey(t)
    \/ ResolveStale(t)
    \/ ResolveExists(t)
    \/ ResolveRead(t)

(* one step of tle_service.fetch_tle_from_celestrak *)
FetchStep(t) ==
    \/ FetchCache(t)
    \/ FetchLocal(t)
    \/ FetchTleapi(t)
    \/ FetchCelestrak(t)
    \/ SaveLocalOpen(t)
    \/ SaveLocalWrite(t)

(* a request of the routes arrives on thread t *)
Start(t) ==
    \/ \E c \in Catnrs : StartRefresh(t, c)
    \/ \E c \in Catnrs : StartRefreshOrRaise(t, c)
    \/ \E key \in Keys, allow \in BOOLEAN : StartResolve(t, key, allow)

(* The backend as the routes drive it, requests served one after the      *)
(* other.  No route or service of the backend imports tle_service.         *)
Next ==
    \/ Tick
    \/ Start(1)
    \/ RefreshStep(1)
    \/ ResolveStep(1)

Spec == Init /\ [][Next]_vars

(* Every acquisition path, the service-level fetch included, calls served *)
(* one after the other.                                                    *)
StartSvc(t) ==
    \/ \E c \in Catnrs : StartRefresh(t, c)
    \/ \E c \in Catnrs : StartFetch(t, c)

NextSvc ==
    \/ Tick
    \/ StartSvc(1)
    \/ RefreshStep(1)
    \/ FetchStep(1)

SpecSvc == Init /\ [][NextSvc]_vars

(* The backend as the routes drive it, requests for one satellite served  *)
(* by parallel threads within one clock unit.                              *)
ParCatnr == 25544

InitPar ==
    /\ Init
    /\ tleFile[ParCatnr] \in {NoFile, File(TleText(SeedTle(ParCatnr)), 0)}
    /\ \A c \in Catnrs \ {ParCatnr} : ~tleFile[c].exists

StartPar(t) ==
    \/ StartRefresh(t, ParCatnr)
    \/ \E allow \in BOOLEAN : StartResolve(t, ISS, allow)

NextPar ==
    \/ \E t \in Threads : StartPar(t)
    \/ \E t \in Threads : RefreshStep(t)
    \/ \E t \in Threads : ResolveStep(t)

SpecPar == InitPar /\ [][NextPar]_vars

(* ---------------------------------------------------------------------- *)
(* Properties                                                              *)
(* ---------------------------------------------------------------------- *)

(* thread t is inside refresh_tle_best_effort or has just left it *)
InRefresh(t) ==
    pc[t] \in {"r_now", "r_gate", "r_satnogs", "r_cel", "w_open", "w_write",
               "w_replace", "m_open", "m_write", "r_ret"}

(* the call of thread t began less than the cooldown after an attempt     *)
(* for its catnr that reached the sources                                  *)
CalledInsideCooldown(t) ==
    LET last == snap[t].last[loc[t].catnr]
    IN last # <<>> /\ loc[t].now - last[1] < _REFRESH_COOLDOWN

(* C1: a refresh called less than the cooldown (2 minutes) after the      *)
(* previous attempt for the same catnr that reached the sources returns    *)
(* failure, has contacted no source and has left the store (element file,  *)
(* metadata file, attempt ledger) as it found it.                          *)
C1_CooldownSkips ==
    \A t \in Threads :
        (pc[t] = "r_ret" /\ CalledInsideCooldown(t))
        => /\ ~loc[t].ok
           /\ contacts[t] = <<>>
           /\ Store = snap[t]

C1_Witness ==
    \E t \in Threads :
        /\ pc[t] = "r_ret" /\ op[t] = "refresh"
        /\ CalledInsideCooldown(t)
        /\ loc[t].now - snap[t].last[loc[t].catnr][1] = 1
        /\ ~loc[t].ok /\ contacts[t] = <<>>

(* C2: of the refresh calls for one catnr that run concurrently, at most  *)
(* one passes the cooldown gate and contacts network sources.              *)
C2_OneRefreshInFlight ==
    \A t, u \in Threads :
        (t # u /\ pc[t] # "idle" /\ pc[u] # "idle"
            /\ loc[t].catnr = loc[u].catnr)
        => ~(contacts[t] # <<>> /\ contacts[u] # <<>>)

(* C3: whenever refresh returns failure, the element file and the         *)
(* metadata file of that catnr are what they were when it was called.      *)
C3_FailureKeepsSlot ==
    \A t \in Threads :
        (pc[t] = "r_ret" /\ ~loc[t].ok)
        => /\ tleFile[loc[t].catnr] = snap[t].tle[loc[t].catnr]
           /\ metaFile[loc[t].catnr] = snap[t].meta[loc[t].catnr]

C3_Witness ==
    \E t \in Threads :
        /\ pc[t] = "r_ret" /\ ~loc[t].ok
        /\ Len(contacts[t]) = 3
        /\ tleFile[loc[t].catnr].exists /\ metaFile[loc[t].catnr].exists

(* the TleRecord invariants on the three lines of an element file *)
TleInvariants(text, c) ==
    /\ Len(text) = 3
    /\ StartsWith(text[2], "1")
    /\ StartsWith(text[3], "2")
    /\ Len(text[2].toks) >= 2
    /\ SelectSeq(text[2].toks[2], IsDigit) = StrOfInt(c)

(* C4: an element file that an acquisition (refresh or the service-level  *)
(* fetch) has written holds a record whose line1 starts with "1 ", whose   *)
(* line2 starts with "2 " and whose embedded catalog number is the catnr   *)
(* of the file.                                                            *)
C4_StoredRecordMatches ==
    \A t \in Threads :
        (pc[t] = "done" /\ tleFile[loc[t].catnr] # snap[t].tle[loc[t].catnr])
        => TleInvariants(tleFile[loc[t].catnr].text, loc[t].catnr)

(* C5: at every instant a reader finds the element file and the metadata  *)
(* file complete: the whole previous content or the whole new one, never   *)
(* an empty or partially written file.                                     *)
C5_ReadersSeeWholeFiles ==
    \A c \in Catnrs :
        /\ tleFile[c].exists => Len(tleFile[c].text) > 0
        /\ metaFile[c].exists => metaFile[c].json # <<>>

(* s is an initial segment of q *)
IsPrefix(s, q) == Len(s) <= Len(q) /\ \A i \in 1..Len(s) : s[i] = q[i]

(* the sources of refresh in the order of the code *)
SourceOrder == <<"satnogs", "celestrak.org", "celestrak.com">>

(* the metadata source name under which a contacted source is recorded *)
SourceName(contact) == IF contact = "satnogs" THEN "satnogs" ELSE "celestrak"

(* C6 as stated: the sources are contacted in the order (a) structured    *)
(* JSON source, (b) second structured JSON source, (c) plain-text sources  *)
(* on alternate hostnames.                                                 *)
C6_TwoJsonSourcesFirst ==
    \A t \in Threads :
        op[t] = "refresh"
        => IsPrefix(contacts[t], <<"satnogs", "tleapi", "celestrak.org", "celestrak.com">>)

(* C6 amended: a refresh that passes the gate contacts the sources in the *)
(* order SatNOGS (JSON), celestrak.org, celestrak.com (plain text); once a *)
(* source has yielded a record no later source is contacted, and on        *)
(* return that record is the content of the element file, the metadata     *)
(* names that source, and the result is success.                           *)
C6_FirstValidSourceWins ==
    \A t \in Threads :
        op[t] \in {"refresh", "refresh_or_raise", "resolve"}
        => /\ IsPrefix(contacts[t], SourceOrder)
           /\ (InRefresh(t) /\ loc[t].cand # <<>>)
              => /\ contacts[t] # <<>>
                 /\ loc[t].source = SourceName(contacts[t][Len(contacts[t])])
                 /\ TleInvariants(TleText(loc[t].cand[1]), loc[t].catnr)
           /\ (pc[t] = "r_ret" /\ contacts[t] # <<>>)
              => /\ loc[t].ok <=> loc[t].cand # <<>>
                 /\ loc[t].ok
                    => /\ tleFile[loc[t].catnr].text = TleText(loc[t].cand[1])
                       /\ metaFile[loc[t].catnr].json # <<>>
                       /\ metaFile[loc[t].catnr].json[1].source = loc[t].source
                       /\ metaFile[loc[t].catnr].json[1].catnr = loc[t].catnr

C6_Witness ==
    \E t \in Threads :
        /\ pc[t] = "r_ret" /\ loc[t].ok
        /\ contacts[t] = <<"satnogs", "celestrak.org">>
        /\ snap[t].tle[loc[t].catnr].exists
        /\ tleFile[loc[t].catnr].text # snap[t].tle[loc[t].catnr].text

(* the structural rules of an element file, on its non-blank lines *)
ViolatesStructure(text, c) ==
    LET lines == SelectSeq(text, LAMBDA ln : ln.toks # <<>>)
    IN \/ Len(lines) < 3
       \/ lines[2].toks[1] # <<"1">>
       \/ lines[3].toks[1] # <<"2">>
       \/ Len(lines[2].toks) < 2
       \/ SelectSeq(lines[2].toks[2], IsDigit) # StrOfInt(c)

(* thread t has finished a resolve whose key is in the catalog *)
ResolvedKnownKey(t) ==
    pc[t] = "done" /\ op[t] = "resolve" /\ result[t].val # "InvalidSatellite"

C8_ResolveIgnoresRefresh ==
    \A t \in Threads :
        ResolvedKnownKey(t)
        => LET c == loc[t].catnr
           IN /\ ~tleFile[c].exists <=> result[t] = Raise("NoLocalElements")
              /\ (tleFile[c].exists /\ ~ViolatesStructure(tleFile[c].text, c))
                 => /\ result[t].kind = "return"
                    /\ result[t].catnr = c
                    /\ result[t].handle # <<>>
                    /\ TleText(result[t].handle[1]) = tleFile[c].text

C8_Witness ==
    \E t \in Threads :
        /\ ResolvedKnownKey(t)
        /\ Len(contacts[t]) = 3 /\ ~loc[t].ok
        /\ now - tleFile[loc[t].catnr].mtime > TLE_TTL
        /\ result[t].kind = "return"
        /\ TleText(result[t].handle[1]) = tleFile[loc[t].catnr].text

(* C9: refresh_tle_or_raise raises "sources unavailable" only when every  *)
(* network source was contacted and failed during the call, and when it    *)
(* returns normally the store holds the record and the metadata that the   *)
(* call committed.                                                         *)
C9_RaisesOnlyWhenExhausted ==
    \A t \in Threads :
        (pc[t] = "done" /\ op[t] = "refresh_or_raise")
        => /\ result[t] = Raise("AcquisitionExhausted") => contacts[t] = SourceOrder
           /\ result[t].kind = "return"
              => /\ tleFile[loc[t].catnr].text = TleText(loc[t].cand[1])
                 /\ metaFile[loc[t].catnr].json = loc[t].meta

(* the catalog number each sample key stands for, 0 for none *)
ExpectedCatnr(key) ==
    CASE key = ISS -> 25544
      [] key = <<" ", "i", "s", "S", " ">> -> 25544
      [] key = <<"h", "s", "t">> -> 20580
      [] OTHER -> 0

(* C10: resolve trims and upper-cases the key, so keys that differ only   *)
(* in case or surrounding whitespace resolve to the same catnr; a key that *)
(* is not in the catalog fails with InvalidSatellite at once, no source    *)
(* contacted, element store and attempt ledger unchanged.                  *)
C10_KeyNormalized ==
    \A t \in Threads :
        (op[t] = "resolve" /\ pc[t] # "g_key")
        => IF ExpectedCatnr(loc[t].key) = 0
           THEN /\ pc[t] = "done"
                /\ result[t] = Raise("InvalidSatellite")
                /\ contacts[t] = <<>>
                /\ Store = snap[t]
           ELSE /\ loc[t].catnr = ExpectedCatnr(loc[t].key)
                /\ result[t].val # "InvalidSatellite"
                /\ result[t].kind = "return" => result[t].catnr = ExpectedCatnr(loc[t].key)

C10_Witness ==
    \E t \in Threads :
        /\ pc[t] = "done" /\ op[t] = "resolve"
        /\ loc[t].key = <<" ", "i", "s", "S", " ">>
        /\ result[t].kind = "return"
        /\ result[t].catnr = SATELLITES[ISS]

(* ---------------------------------------------------------------------- *)
(* tle_age_seconds / is_stale (GET /tle/status, the startup pass)          *)
(* ---------------------------------------------------------------------- *)

(* int(x): truncation toward zero of the quotient a / b, b > 0 *)
TruncDiv(a, b) == IF a >= 0 THEN a \div b ELSE 0 - ((0 - a) \div b)

(* a clock resolution: a duration of d clock units lasts d * mul / div     *)
(* seconds.  The store model counts minutes; the model of the age           *)
(* functions counts fractions of a second.                                  *)
Minutes == [mul |-> 60, div |-> 1]

SubSecond == 2

Fractions == [mul |-> 1, div |-> SubSecond]

(* meta.get("fetched_at_utc"): <<timestamp>>, or <<>> when the key is missing *)
MetaGetFetched(meta) ==
    IF "fetched_at_utc" \in DOMAIN meta THEN <<meta.fetched_at_utc>> ELSE <<>>

(* tle_age_seconds at time n in a clock of resolution res: <<seconds>> or  *)
(* <<>> for None                                                           *)
tle_age_seconds(c, n, res) ==
    LET meta == _read_meta(c)
        fetched == IF meta = <<>> THEN <<>> ELSE MetaGetFetched(meta[1])
    IN IF fetched # <<>>
       THEN <<TruncDiv((n - fetched[1]) * res.mul, res.div)>>
       ELSE IF ~tleFile[c].exists THEN <<>>
            ELSE <<TruncDiv((n - tleFile[c].mtime) * res.mul, res.div)>>

(* int(TLE_TTL.total_seconds()) *)
TtlSeconds == TLE_TTL * 60

is_stale(c, n, res) ==
    LET age == tle_age_seconds(c, n, res)
    IN IF age = <<>> THEN TRUE ELSE age[1] > TtlSeconds

(* ---------------------------------------------------------------------- *)
(* The age functions on a stored slot that nothing writes, under a clock   *)
(* of SubSecond units per second                                            *)
(* ---------------------------------------------------------------------- *)
MaxAgeTicks == 3

(* the TTL in clock units *)
TtlUnits == TtlSeconds * SubSecond

(* timestamps of a slot stored before the process started (now = 0): just  *)
(* written, and at, one unit short of and one second short of the TTL ago  *)
AgeStamps == {0, 0 - TtlUnits, 1 - TtlUnits, SubSecond - TtlUnits}

(* a metadata dict that lacks the timestamp *)
MetaNoTimestamp(catnr, source) == [catnr |-> catnr, source |-> source]

AgeSeeds(c) ==
    LET files == {NoFile} \cup {File(TleText(SeedTle(c)), m) : m \in AgeStamps}
        metas == {NoMetaFile, MetaFile(<<>>), MetaFile(<<MetaNoTimestamp(c, "seed")>>)}
                 \cup {MetaFile(<<Meta(c, f, "seed")>>) : f \in AgeStamps}
    IN files \X metas

InitAge ==
    /\ now = 0
    /\ ticks = 0
    /\ calls = 0
    /\ \E seed \in AgeSeeds(ParCatnr) :
          /\ tleFile = [c \in Catnrs |-> IF c = ParCatnr THEN seed[1] ELSE NoFile]
          /\ metaFile = [c \in Catnrs |-> IF c = ParCatnr THEN seed[2] ELSE NoMetaFile]
    /\ tmpFile = [c \in Catnrs |-> NoFile]
    /\ _LAST_REFRESH_ATTEMPT = [c \in Catnrs |-> <<>>]
    /\ _CACHE = [c \in Catnrs |-> <<>>]
    /\ pc = [t \in Threads |-> "idle"]
    /\ op = [t \in Threads |-> "none"]
    /\ loc = [t \in Threads |-> NoLocals]
    /\ contacts = [t \in Threads |-> <<>>]
    /\ snap = [t \in Threads |-> Store]
    /\ result = [t \in Threads |-> NoResult]

(* the clock advances by one unit between requests *)
AgeTick ==
    /\ ticks < MaxAgeTicks
    /\ \A t \in Threads : pc[t] = "idle"
    /\ now' = now + 1
    /\ ticks' = ticks + 1
    /\ UNCHANGED <<calls, tleFile, tmpFile, metaFile, _LAST_REFRESH_ATTEMPT, _CACHE,
                   pc, op, loc, contacts, snap, result>>

(* GET /tle/status evaluates is_stale(catnr) *)
StartIsStale(t, c) ==
    Begin(t, "is_stale", "a_age", [NoLocals EXCEPT !.catnr = c])

IsStaleReturn(t) ==
    /\ pc[t] = "a_age"
    /\ loc' = [loc EXCEPT ![t].now = now,
                          ![t].ok = is_stale(loc[t].catnr, now, Fractions)]
    /\ Done(t, Return(IF is_stale(loc[t].catnr, now, Fractions)
                      THEN "stale" ELSE "fresh"))
    /\ UNCHANGED <<now, ticks, calls, tleFile, tmpFile, metaFile,
                   _LAST_REFRESH_ATTEMPT, _CACHE, op, contacts, snap>>

NextAge ==
    \/ AgeTick
    \/ StartIsStale(1, ParCatnr)
    \/ IsStaleReturn(1)
    \/ Finish(1)

SpecAge == InitAge /\ [][NextAge]_vars

(* the age of the claim, in clock units and not rounded: now minus the     *)
(* metadata timestamp when there is one, otherwise now minus the element    *)
(* file's modification time, <<>> when unknown                              *)
ExactAge(c, n) ==
    LET meta == _read_meta(c)
    IN IF meta # <<>> /\ MetaGetFetched(meta[1]) # <<>>
       THEN <<n - meta[1].fetched_at_utc>>
       ELSE IF tleFile[c].exists THEN <<n - tleFile[c].mtime>> ELSE <<>>

(* C11: is_stale answers true exactly when the age is unknown or the age   *)
(* exceeds the TTL of 6 hours.                                              *)
C11_StaleIffAgeExceedsTtl ==
    \A t \in Threads :
        (pc[t] = "done" /\ op[t] = "is_stale")
        => LET age == ExactAge(loc[t].catnr, loc[t].now)
           IN (result[t].val = "stale") <=> (age = <<>> \/ age[1] > TtlUnits)

(* ---------------------------------------------------------------------- *)
(* compute_passes_mvd: the reduction of the event sequence of find_events  *)
(* to passes.  An event is [t, e]: t its time (its place in the ordered     *)
(* sequence), e its kind, 0 rise, 1 culmination, 2 set.  A dict key that    *)
(* is not set is <<>>.                                                      *)
(* ---------------------------------------------------------------------- *)
MaxEvents == 4

EventSeqs ==
    UNION {{[i \in 1..n |-> [t |-> i, e |-> kinds[i]]] : kinds \in [1..n -> {0, 1, 2}]}
           : n \in 0..MaxEvents}

(* the elevation that altaz() gives at the time of an event *)
Altaz(t) == 10 * t

NoCurrent ==
    [rise_utc |-> <<>>, culmination_utc |-> <<>>, max_elevation_deg |-> <<>>,
     set_utc |-> <<>>]

(* e == 0 with the dict updated instead of replaced *)
OnRiseUpdate(current, ev) == [current EXCEPT !.rise_utc = <<ev.t>>]

(* e == 0: current = {"rise_utc": ...} *)
OnRise(current, ev) == [NoCurrent EXCEPT !.rise_utc = <<ev.t>>]

(* e == 1: current.update({"culmination_utc": ..., "max_elevation_deg": ...}) *)
OnCulmination(current, ev) ==
    [current EXCEPT !.culmination_utc = <<ev.t>>,
                    !.max_elevation_deg = <<Altaz(ev.t)>>]

(* e == 2: current.update({"set_utc": ...}) *)
OnSet(current, ev) == [current EXCEPT !.set_utc = <<ev.t>>]

RECURSIVE PassLoop(_, _, _, _)
(* the for loop from its i-th iteration on *)
PassLoop(events, i, current, results) ==
    IF i > Len(events) THEN results
    ELSE LET ev == events[i]
         IN IF ev.e = 0
            THEN PassLoop(events, i + 1, OnRise(current, ev), results)
            ELSE IF ev.e = 1
            THEN PassLoop(events, i + 1, OnCulmination(current, ev), results)
            ELSE PassLoop(events, i + 1, NoCurrent,
                          IF OnSet(current, ev).max_elevation_deg # <<>>
                          THEN Append(results, OnSet(current, ev))
                          ELSE results)

(* a process whose store holds a fresh slot for every satellite, so that   *)
(* the services get their satellite handle without a refresh               *)
InitPure ==
    /\ now = 0
    /\ ticks = 0
    /\ calls = 0
    /\ tleFile = [c \in Catnrs |-> File(TleText(SeedTle(c)), 0)]
    /\ metaFile = [c \in Catnrs |-> MetaFile(<<Meta(c, 0, "seed")>>)]
    /\ tmpFile = [c \in Catnrs |-> NoFile]
    /\ _LAST_REFRESH_ATTEMPT = [c \in Catnrs |-> <<>>]
    /\ _CACHE = [c \in Catnrs |-> <<>>]
    /\ pc = [t \in Threads |-> "idle"]
    /\ op = [t \in Threads |-> "none"]
    /\ loc = [t \in Threads |-> NoLocals]
    /\ contacts = [t \in Threads |-> <<>>]
    /\ snap = [t \in Threads |-> Store]
    /\ result = [t \in Threads |-> NoResult]

(* GET /passes, from the answer of find_events on *)
StartPasses(t, events) ==
    Begin(t, "passes", "p_loop", [events |-> events] @@ NoLocals)

ReducePasses(t) ==
    /\ pc[t] = "p_loop"
    /\ Done(t, [Return("passes") EXCEPT
                   !.handle = PassLoop(loc[t].events, 1, NoCurrent, <<>>)])
    /\ UNCHANGED <<now, ticks, calls, tleFile, tmpFile, metaFile,
                   _LAST_REFRESH_ATTEMPT, _CACHE, op, loc, contacts, snap>>

NextPass ==
    \/ \E events \in EventSeqs : StartPasses(1, events)
    \/ ReducePasses(1)
    \/ Finish(1)

SpecPass == InitPure /\ [][NextPass]_vars

(* thread t has the passes of its event sequence *)
PassesDone(t) == pc[t] = "done" /\ op[t] = "passes"

(* C12: every pass in the returned list has its rise time, culmination     *)
(* time, maximum elevation and set time, whatever event sequence the       *)
(* window gave, sequences that start with a culmination or a set included. *)
C12_PassesComplete ==
    \A t \in Threads :
        PassesDone(t)
        => \A k \in 1..Len(result[t].handle) :
              LET p == result[t].handle[k]
              IN /\ p.rise_utc # <<>>
                 /\ p.culmination_utc # <<>>
                 /\ p.max_elevation_deg # <<>>
                 /\ p.set_utc # <<>>

(* the place of the last set event before the j-th event, 0 when none *)
PrevSet(ev, j) ==
    LET sets == {k \in 1..(j - 1) : ev[k].e = 2}
    IN IF sets = {} THEN 0 ELSE CHOOSE k \in sets : \A m \in sets : m <= k

(* the events between the previous set (or the window start) and the j-th *)
Stretch(ev, j) == (PrevSet(ev, j) + 1)..(j - 1)

(* the latest event of kind e among the places s, <<>> when none *)
Latest(ev, s, e) ==
    LET hits == {k \in s : ev[k].e = e}
    IN IF hits = {} THEN <<>> ELSE <<CHOOSE k \in hits : \A m \in hits : m <= k>>

(* the j-th event is a set preceded in its stretch by a rise followed by a *)
(* culmination                                                             *)
ArcBefore(ev, j) ==
    /\ ev[j].e = 2
    /\ \E r, c \in Stretch(ev, j) : r < c /\ ev[r].e = 0 /\ ev[c].e = 1

CulminatedSet(ev, j) ==
    /\ ev[j].e = 2
    /\ \E c \in Stretch(ev, j) :
          ev[c].e = 1 /\ \A r \in (c + 1)..(j - 1) : ev[r].e # 0

(* the pass that ends at the set event j *)
PassAt(ev, j) ==
    LET c == Latest(ev, Stretch(ev, j), 1)
    IN [rise_utc |-> Latest(ev, Stretch(ev, j), 0),
        culmination_utc |-> c,
        max_elevation_deg |-> <<Altaz(c[1])>>,
        set_utc |-> <<j>>]

TrackWindows == {0 - 10, 0, 5, 90, 95}

TrackSteps == {10, 60, 120}

(* the arguments of compute_track_now, in and out of its accepted ranges *)
NowMinutes == {0, 1, 2, 181}

NowSteps == {0, 25, 60, 61, 120, 121}

Max(a, b) == IF a >= b THEN a ELSE b

(* the subpoint of the propagated position at a time *)
SubpointLat(tm) == 13 * (tm.num \div tm.den) + 3

SubpointLon(tm) == 0 - 17 * (tm.num \div tm.den) - 6

(* round(x, 6) *)
Round6(x) == ((x + 5) \div 10) * 10

Point(tm) ==
    [t_utc |-> tm, lat |-> Round6(SubpointLat(tm)), lon |-> Round6(SubpointLon(tm))]

(* n with one sample too many *)
TrackCountExtra(total, step) == Max(2, total \div step + 2)

(* n = max(2, total_seconds // step_seconds + 1) *)
TrackCount(total, step) == Max(2, total \div step + 1)

(* ts.linspace(t0, t1, n) *)
Linspace(start, end, n) ==
    [i \in 1..n |-> [num |-> start * (n - 1) + (i - 1) * (end - start), den |-> n - 1]]

TrackResult(points, coords) ==
    [kind |-> "return", val |-> "track",
     handle |-> <<[points |-> points, coords |-> coords]>>, catnr |-> 0]

(* coords.append with the pair the other way round *)
TrackCoordLatLon(tm) == <<SubpointLat(tm), SubpointLon(tm)>>

(* coords.append([lon, lat]) *)
TrackCoord(tm) == <<SubpointLon(tm), SubpointLat(tm)>>

(* GET /track *)
StartTrack(t, start, end, step) ==
    Begin(t, "track", "t_run",
          [start |-> start, end |-> end, step |-> step, minutes |-> 0] @@ NoLocals)

ComputeTrack(t) ==
    /\ pc[t] = "t_run"
    /\ op[t] = "track"
    /\ LET l == loc[t]
           times == Linspace(l.start, l.end, TrackCount(l.end - l.start, l.step))
       IN IF l.end <= l.start
          THEN Done(t, Raise("ValueError"))
          ELSE Done(t, TrackResult([i \in DOMAIN times |-> Point(times[i])],
                                   [i \in DOMAIN times |-> TrackCoord(times[i])]))
    /\ UNCHANGED <<now, ticks, calls, tleFile, tmpFile, metaFile,
                   _LAST_REFRESH_ATTEMPT, _CACHE, op, loc, contacts, snap>>

RECURSIVE TimesWhile(_, _, _)
(* the while loop: t = start; while t <= end_dt: append; t += step *)
TimesWhile(tm, end, step) ==
    IF tm <= end
    THEN <<[num |-> tm, den |-> 1]>> \o TimesWhile(tm + step, end, step)
    ELSE <<>>

(* GET /track/now; start_dt is the clock *)
StartTrackNow(t, minutes, step) ==
    Begin(t, "track_now", "t_run",
          [start |-> now, end |-> now + 60 * minutes, step |-> step,
           minutes |-> minutes] @@ NoLocals)

ComputeTrackNow(t) ==
    /\ pc[t] = "t_run"
    /\ op[t] = "track_now"
    /\ LET l == loc[t]
           times == TimesWhile(l.start, l.end, l.step)
           points == [i \in DOMAIN times |-> Point(times[i])]
       IN IF l.minutes < 1 \/ l.minutes > 180 \/ l.step < 1 \/ l.step > 120
          THEN Done(t, Raise("ValueError"))
          ELSE Done(t, TrackResult(points,
                                   [i \in DOMAIN points |-> <<points[i].lon, points[i].lat>>]))
    /\ UNCHANGED <<now, ticks, calls, tleFile, tmpFile, metaFile,
                   _LAST_REFRESH_ATTEMPT, _CACHE, op, loc, contacts, snap>>

NextTrack ==
    \/ \E w \in TrackWindows, step \in TrackSteps : StartTrack(1, now, now + w, step)
    \/ \E minutes \in NowMinutes, step \in NowSteps : StartTrackNow(1, minutes, step)
    \/ ComputeTrack(1)
    \/ ComputeTrackNow(1)
    \/ Finish(1)

SpecTrack == InitPure /\ [][NextTrack]_vars

(* thread t has the outcome of a ground-track request *)
TrackDone(t) == pc[t] = "done" /\ op[t] \in {"track", "track_now"}

(* thread t has the samples of an accepted ground-track request *)
TrackReturned(t) == TrackDone(t) /\ result[t].kind = "return"

(* C14: every ground-track request, in both forms, yields at least two    *)
(* samples, also when the step is longer than the window, and a request     *)
(* with start = end yields exactly two samples, both at start.              *)
C14_AtLeastTwoSamples ==
    \A t \in Threads :
        TrackDone(t)
        => /\ result[t].kind = "return" => Len(result[t].handle[1].points) >= 2
           /\ (op[t] = "track" /\ loc[t].start = loc[t].end)
              => /\ result[t].kind = "return"
                 /\ Len(result[t].handle[1].points) = 2
                 /\ \A i \in 1..2 :
                       result[t].handle[1].points[i].t_utc.num
                         = loc[t].start * result[t].handle[1].points[i].t_utc.den

(* the samples of a returned result and their times, as fractions of one   *)
(* denominator                                                             *)
SamplesOf(t) == result[t].handle[1].points

TimeNum(t, i) == SamplesOf(t)[i].t_utc.num

TimeDen(t) == SamplesOf(t)[1].t_utc.den

(* the samples of thread t are in strictly increasing time order, the      *)
(* first at start, and equally spaced                                      *)
OrderedFromStart(t) ==
    LET n == Len(SamplesOf(t))
    IN /\ n >= 1
       /\ \A i \in 1..n : SamplesOf(t)[i].t_utc.den = TimeDen(t)
       /\ TimeNum(t, 1) = loc[t].start * TimeDen(t)
       /\ \A i \in 1..(n - 1) : TimeNum(t, i) < TimeNum(t, i + 1)
       /\ \A i \in 1..(n - 2) :
             TimeNum(t, i + 1) - TimeNum(t, i) = TimeNum(t, i + 2) - TimeNum(t, i + 1)

(* consecutive samples of thread t are one step apart *)
SpacedByStep(t) ==
    \A i \in 1..(Len(SamplesOf(t)) - 1) :
        TimeNum(t, i + 1) - TimeNum(t, i) = loc[t].step * TimeDen(t)

(* the last sample of thread t is at end *)
EndsAtEnd(t) == TimeNum(t, Len(SamplesOf(t))) = loc[t].end * TimeDen(t)

(* C15 as stated: the samples of an accepted ground-track request, in both *)
(* forms, are in strictly increasing time order, start at start, end at     *)
(* end and are one step apart.                                              *)
C15_StepSpacedCoverage ==
    \A t \in Threads :
        TrackReturned(t) => OrderedFromStart(t) /\ EndsAtEnd(t) /\ SpacedByStep(t)

(* C15 amended: the samples are in strictly increasing time order, start  *)
(* at start and are equally spaced.  The start/end form has                 *)
(* max(2, window div step + 1) samples and ends at end, and its spacing is  *)
(* the step exactly when the step divides the window.  The from-now form    *)
(* is spaced by the step and ends at the last multiple of the step inside   *)
(* the window, which is end exactly when the step divides the window.       *)
C15_UniformCoverage ==
    \A t \in Threads :
        TrackReturned(t)
        => LET w == loc[t].end - loc[t].start
               divides == w % loc[t].step = 0
           IN /\ OrderedFromStart(t)
              /\ op[t] = "track"
                 => /\ EndsAtEnd(t)
                    /\ Len(SamplesOf(t)) = Max(2, w \div loc[t].step + 1)
                    /\ SpacedByStep(t) <=> divides
              /\ op[t] = "track_now"
                 => /\ SpacedByStep(t)
                    /\ TimeNum(t, Len(SamplesOf(t))) <= loc[t].end
                    /\ TimeNum(t, Len(SamplesOf(t))) > loc[t].end - loc[t].step
                    /\ EndsAtEnd(t) <=> divides

(* a window of 95 s sampled every 10 s has given 10 samples from start to  *)
(* end, more than a step apart                                             *)
C15_Witness ==
    \E t \in Threads :
        /\ TrackReturned(t)
        /\ op[t] = "track"
        /\ loc[t].end - loc[t].start = 95 /\ loc[t].step = 10
        /\ Len(SamplesOf(t)) = 10
        /\ EndsAtEnd(t)
        /\ ~SpacedByStep(t)

(* C17: the polyline of a ground-track result has one coordinate for each *)
(* sample, in the order of the samples, and the i-th coordinate is the      *)
(* pair [longitude, latitude] of the i-th sample, whose separate lat and    *)
(* lon fields hold the same position to 6 decimals.                         *)
C17_CoordsAreLonLat ==
    \A t \in Threads :
        TrackReturned(t)
        => LET points == SamplesOf(t)
               coords == result[t].handle[1].coords
           IN /\ Len(coords) = Len(points)
              /\ \A i \in 1..Len(points) :
                    /\ Len(coords[i]) = 2
                    /\ Round6(coords[i][1]) = points[i].lon
                    /\ Round6(coords[i][2]) = points[i].lat
                    /\ points[i].lon = Round6(SubpointLon(points[i].t_utc))
                    /\ points[i].lat = Round6(SubpointLat(points[i].t_utc))

(* a start/end result of several samples whose latitudes differ from      *)
(* their longitudes                                                        *)
C17_Witness ==
    \E t \in Threads :
        /\ TrackReturned(t)
        /\ op[t] = "track"
        /\ Len(result[t].handle[1].coords) = 10
        /\ \A i \in 1..10 : SamplesOf(t)[i].lat # SamplesOf(t)[i].lon
        /\ result[t].handle[1].coords[2] # <<SamplesOf(t)[2].lon, SamplesOf(t)[2].lat>>

(* C16: the record that a successful refresh has written, which satisfies *)
(* the TleRecord invariants, is what reading the slot back yields: the      *)
(* same name, line1 and line2.                                              *)
C16_RoundTrip ==
    \A t \in Threads :
        (pc[t] = "r_ret" /\ loc[t].ok)
        => _read_tle_file(tleFile[loc[t].catnr].text, loc[t].catnr) = loc[t].cand

(* C18: in a refresh that passed the cooldown gate every source attempt   *)
(* that fails (transport error, non-2xx status, invalid payload) is         *)
(* followed by an attempt on the next source, the alternate plain-text      *)
(* hostname included, so a refresh that fails has contacted every source;   *)
(* and refresh returns, it raises nothing.                                  *)
C18_FallsThroughToNext ==
    \A t \in Threads :
        /\ (pc[t] = "r_ret" /\ ~CooldownGate(loc[t].last, loc[t].now))
           => /\ IsPrefix(contacts[t], SourceOrder)
              /\ loc[t].ok \/ contacts[t] = SourceOrder
        /\ (pc[t] = "done" /\ op[t] = "refresh") => result[t].kind = "return"

(* ---------------------------------------------------------------------- *)
(* _parse_tle_text_any on the plain-text payloads of CelesTrak              *)
(* ---------------------------------------------------------------------- *)
MaxLines == 4

(* the lines a payload is made of: a name, the two element lines of the    *)
(* requested satellite and of another one, and a blank line                 *)
PayloadLines ==
    {NameOf(ParCatnr), Line1(ParCatnr), Line2(ParCatnr),
     Line1(OtherCatnr(ParCatnr)), Line2(OtherCatnr(ParCatnr)), Line(FALSE, <<>>)}

Payloads == UNION {[1..n -> PayloadLines] : n \in 0..MaxLines}

(* parsed = _parse_tle_text_any(resp.text, catnr) in _fetch_tle_from_celestrak *)
StartLocate(t, text) ==
    Begin(t, "locate", "l_parse", [text |-> text] @@ [NoLocals EXCEPT !.catnr = ParCatnr])

LocateReturn(t) ==
    /\ pc[t] = "l_parse"
    /\ Done(t, [Return("parsed") EXCEPT
                   !.handle = _parse_tle_text_any(loc[t].text, loc[t].catnr)])
    /\ UNCHANGED <<now, ticks, calls, tleFile, tmpFile, metaFile,
                   _LAST_REFRESH_ATTEMPT, _CACHE, op, loc, contacts, snap>>

NextLocate ==
    \/ \E text \in Payloads : StartLocate(1, text)
    \/ LocateReturn(1)
    \/ Finish(1)

SpecLocate == InitPure /\ [][NextLocate]_vars

(* C19: when the non-blank lines of a payload hold, at any place, a line   *)
(* "1 ..." with the requested catalog number followed by a line "2 ...",    *)
(* the locator returns the first such pair, named by the non-blank line     *)
(* before it, or by the placeholder "CATNR <n>" when the pair opens the     *)
(* payload; it never returns the lines of another catalog number.           *)
C19_LocatorFindsRecord ==
    \A t \in Threads :
        (pc[t] = "done" /\ op[t] = "locate")
        => LET c == loc[t].catnr
               lines == NonBlankLines(loc[t].text)
               hits == {i \in 1..(Len(lines) - 1) : LocatorHit(lines, i, c)}
               first == CHOOSE h \in hits : \A g \in hits : h <= g
           IN /\ hits # {}
                 => result[t].handle
                      = <<TLE(IF first > 1 THEN lines[first - 1] ELSE Placeholder(c),
                              lines[first], lines[first + 1])>>
              /\ result[t].handle # <<>>
                 => _parse_catnr_from_line1(result[t].handle[1].line1) = <<c>>

(* ---------------------------------------------------------------------- *)
(* Crash and restart.  A crash ends the running request where it stands:   *)
(* the files stay as they are, the attempt ledger and the cache, which      *)
(* live in memory, start empty again.                                       *)
(* ---------------------------------------------------------------------- *)
Crash ==
    /\ \E t \in Threads : pc[t] \notin {"idle", "done"}
    /\ _LAST_REFRESH_ATTEMPT' = [c \in Catnrs |-> <<>>]
    /\ _CACHE' = [c \in Catnrs |-> <<>>]
    /\ pc' = [t \in Threads |-> "idle"]
    /\ op' = [t \in Threads |-> "none"]
    /\ loc' = [t \in Threads |-> NoLocals]
    /\ contacts' = [t \in Threads |-> <<>>]
    /\ snap' = [t \in Threads |-> [Store EXCEPT !.last = [c \in Catnrs |-> <<>>]]]
    /\ result' = [t \in Threads |-> NoResult]
    /\ UNCHANGED <<now, ticks, calls, tleFile, tmpFile, metaFile>>

(* _startup_refresh_tles, one catalog entry; it runs when the process      *)
(* starts, before any refresh attempt                                       *)
StartStartup(t, c) ==
    /\ \A d \in Catnrs : _LAST_REFRESH_ATTEMPT[d] = <<>>
    /\ Begin(t, "startup", "u_stale", [NoLocals EXCEPT !.catnr = c])

(* if is_stale(catnr): refresh_tle_best_effort(catnr), else skip *)
StartupStale(t) ==
    /\ pc[t] = "u_stale"
    /\ IF is_stale(loc[t].catnr, now, Minutes)
       THEN Goto(t, "r_now") /\ UNCHANGED result
       ELSE Done(t, Return("skip"))
    /\ UNCHANGED <<now, ticks, calls, tleFile, tmpFile, metaFile,
                   _LAST_REFRESH_ATTEMPT, _CACHE, op, loc, contacts, snap>>

StartCrash(t) ==
    \/ StartRefresh(t, ParCatnr)
    \/ \E allow \in BOOLEAN : StartResolve(t, ISS, allow)
    \/ StartStartup(t, ParCatnr)

NextCrash ==
    \/ Tick
    \/ StartCrash(1)
    \/ RefreshStep(1)
    \/ ResolveStep(1)
    \/ StartupStale(1)
    \/ Crash

SpecCrash == Init /\ [][NextCrash]_vars

(* thread t has finished a resolve with the network allowed, or a startup  *)
(* pass, that began in a process with an empty attempt ledger on a slot     *)
(* that has an element file and no readable metadata                        *)
DoneOnFileWithoutMeta(t) ==
    LET c == loc[t].catnr
    IN /\ pc[t] = "done"
       /\ \/ op[t] = "resolve" /\ loc[t].allow /\ result[t].val # "InvalidSatellite"
          \/ op[t] = "startup"
       /\ snap[t].last[c] = <<>>
       /\ snap[t].tle[c].exists
       /\ ~snap[t].meta[c].exists \/ snap[t].meta[c].json = <<>>

StaleAtStart(t) ==
    LET c == loc[t].catnr
        meta == IF snap[t].meta[c].exists THEN snap[t].meta[c].json ELSE <<>>
    IN IF meta # <<>> THEN now - meta[1].fetched_at_utc > TLE_TTL
       ELSE IF snap[t].tle[c].exists THEN now - snap[t].tle[c].mtime > TLE_TTL
       ELSE TRUE

RECURSIVE Accumulator(_, _, _, _, _)
Accumulator(events, i, state, current, results) ==
    IF i > Len(events) THEN results
    ELSE LET ev == events[i]
         IN IF ev.e = 0 /\ state \in {"idle", "rising"}
            THEN Accumulator(events, i + 1, "rising",
                             [NoCurrent EXCEPT !.rise_utc = <<ev.t>>], results)
            ELSE IF ev.e = 1 /\ state = "rising"
            THEN Accumulator(events, i + 1, "culminated",
                             [current EXCEPT !.culmination_utc = <<ev.t>>,
                                             !.max_elevation_deg = <<Altaz(ev.t)>>],
                             results)
            ELSE IF ev.e = 2 /\ state = "culminated"
            THEN Accumulator(events, i + 1, "idle", NoCurrent,
                             Append(results, [current EXCEPT !.set_utc = <<ev.t>>]))
            ELSE Accumulator(events, i + 1, state, current, results)

(* C22: for every event sequence the reducer of compute_passes_mvd emits   *)
(* the passes of the 3-state accumulator: the same number of passes with    *)
(* the same rise, culmination and set times.                                *)
C22_ReducerMatchesAccumulator ==
    \A t \in Threads :
        PassesDone(t)
        => result[t].handle = Accumulator(loc[t].events, 1, "idle", NoCurrent, <<>>)

(* no request is at work on the slot of catnr c *)
SlotAtRest(c) == \A t \in Threads : pc[t] \in {"idle", "done"} \/ loc[t].catnr # c

(* C23: whenever no acquisition for a catnr is in progress, the metadata   *)
(* of its slot was written by the acquisition that wrote its element file:  *)
(* the metadata is readable, the element file exists and was written at     *)
(* the time the metadata names.                                             *)
C23_SlotFromOneAcquisition ==
    \A c \in Catnrs :
        (SlotAtRest(c) /\ metaFile[c].exists)
        => /\ metaFile[c].json # <<>>
           /\ tleFile[c].exists
           /\ tleFile[c].mtime = metaFile[c].json[1].fetched_at_utc

(* ---------------------------------------------------------------------- *)
(* The startup pass, _startup_refresh_tles, as one loop over the catalog    *)
(* ---------------------------------------------------------------------- *)

(* SATELLITES.items(), in the order of the dict literal *)
CatalogOrder == <<25544, 20580>>

(* the locals of the pass: the position in the catalog, the entries whose  *)
(* body has begun, and the entries whose body ended in the except clause    *)
PassLocals(i, visited, errors, c) ==
    [i |-> i, visited |-> visited, errors |-> errors] @@ [NoLocals EXCEPT !.catnr = c]

(* the startup hook runs once, when the process starts *)
StartPass(t) ==
    /\ \A d \in Catnrs : _LAST_REFRESH_ATTEMPT[d] = <<>>
    /\ Begin(t, "pass", "p_next", PassLocals(0, <<>>, <<>>, 0))

(* for key, catnr in SATELLITES.items(): the next entry, or the end *)
PassNext(t) ==
    LET i == loc[t].i + 1
    IN /\ pc[t] = "p_next"
       /\ IF i > Len(CatalogOrder)
          THEN Done(t, Return("None")) /\ UNCHANGED loc
          ELSE /\ loc' = [loc EXCEPT ![t] =
                             PassLocals(i, Append(loc[t].visited, CatalogOrder[i]),
                                        loc[t].errors, CatalogOrder[i])]
               /\ Goto(t, "p_stale")
               /\ UNCHANGED result
       /\ UNCHANGED <<now, ticks, calls, tleFile, tmpFile, metaFile,
                      _LAST_REFRESH_ATTEMPT, _CACHE, op, contacts, snap>>

(* the pass that refreshes every entry *)
PassStaleAlways(t) ==
    /\ pc[t] = "p_stale"
    /\ Goto(t, "r_now")
    /\ UNCHANGED <<now, ticks, calls, tleFile, tmpFile, metaFile,
                   _LAST_REFRESH_ATTEMPT, _CACHE, op, loc, contacts, snap, result>>

(* if is_stale(catnr): ok = refresh_tle_best_effort(catnr), else skip *)
PassStale(t) ==
    /\ pc[t] = "p_stale"
    /\ IF is_stale(loc[t].catnr, now, Minutes)
       THEN Goto(t, "r_now")
       ELSE Goto(t, "p_next")
    /\ UNCHANGED <<now, ticks, calls, tleFile, tmpFile, metaFile,
                   _LAST_REFRESH_ATTEMPT, _CACHE, op, loc, contacts, snap, result>>

(* except Exception: a file operation of the refresh raises OSError, the   *)
(* pass prints the error and goes on with the next entry                    *)
PassError(t) ==
    /\ op[t] = "pass"
    /\ pc[t] \in {"w_open", "w_write", "w_replace", "m_open", "m_write"}
    /\ loc' = [loc EXCEPT ![t].errors = Append(@, loc[t].catnr)]
    /\ Goto(t, "p_next")
    /\ UNCHANGED <<now, ticks, calls, tleFile, tmpFile, metaFile,
                   _LAST_REFRESH_ATTEMPT, _CACHE, op, contacts, snap, result>>

PassStep(t) ==
    \/ PassNext(t)
    \/ PassStale(t)
    \/ PassError(t)
    \/ RefreshStep(t)

NextStartup ==
    \/ StartPass(1)
    \/ PassStep(1)

(* the hook runs to its end: nothing but the process ending stops it, and  *)
(* every source attempt is cut by a timeout                                 *)
SpecStartup == Init /\ [][NextStartup]_vars /\ WF_vars(PassStep(1))

Range(seq) == {seq[i] : i \in DOMAIN seq}

(* C24: the startup pass visits the catalog entries in order, each once;   *)
(* it calls refresh only on an entry that is_stale reports stale; an error  *)
(* or a failed refresh on an entry leaves the pass running, so that it ends *)
(* having visited every entry; and a pass that has begun always ends.        *)
C24_StartupPassCompletes ==
    /\ [](\A t \in Threads :
            op[t] = "pass"
            => /\ loc[t].visited = SubSeq(CatalogOrder, 1, loc[t].i)
               /\ pc[t] = "r_now" => is_stale(loc[t].catnr, now, Minutes)
               /\ \A c \in Catnrs :
                     _LAST_REFRESH_ATTEMPT[c] # <<>> => c \in Range(loc[t].visited)
               /\ pc[t] = "done" => loc[t].visited = CatalogOrder)
    /\ \A t \in Threads : (op[t] = "pass") ~> (op[t] = "pass" /\ pc[t] = "done")

(* a pass has ended in which the body of the first entry raised and the    *)
(* refresh of the second entry was still attempted, and failed               *)
C24_Witness ==
    \E t \in Threads :
        /\ op[t] = "pass" /\ pc[t] = "done"
        /\ loc[t].errors = <<CatalogOrder[1]>>
        /\ _LAST_REFRESH_ATTEMPT[CatalogOrder[2]] # <<>>
        /\ ~tleFile[CatalogOrder[2]].exists

(* ---------------------------------------------------------------------- *)
(* The two staleness predicates side by side                                *)
(* ---------------------------------------------------------------------- *)

(* _needs_refresh at time n in a clock of resolution res: a missing,       *)
(* unreadable or empty metadata file falls back on the modification time;   *)
(* meta["fetched_at_utc"] on a dict without the key raises and the except   *)
(* clause answers True; the timedelta is compared with TLE_TTL as it is     *)
_needs_refresh_at(c, n, res) ==
    LET meta == _read_meta(c)
    IN IF meta = <<>>
       THEN IF ~tleFile[c].exists THEN TRUE
            ELSE (n - tleFile[c].mtime) * res.mul > TtlSeconds * res.div
       ELSE IF MetaGetFetched(meta[1]) = <<>> THEN TRUE
            ELSE (n - meta[1].fetched_at_utc) * res.mul > TtlSeconds * res.div

(* C25: on every slot and at every clock value, _needs_refresh answers     *)
(* true exactly when is_stale answers true.                                 *)
C25_PredicatesAgree ==
    \A t \in Threads :
        (op[t] = "is_stale" /\ pc[t] = "done")
        => (loc[t].ok <=> _needs_refresh_at(loc[t].catnr, loc[t].now, Fractions))

(* ---------------------------------------------------------------------- *)
(* The ground-track requests on the store: the resolver and the checks of   *)
(* the parameters in the order of the code                                  *)
(* ---------------------------------------------------------------------- *)
TrackLocals(form, key, start, end, step, minutes) ==
    [form |-> form, start |-> start, end |-> end, step |-> step, minutes |-> minutes]
    @@ [NoLocals EXCEPT !.key = key, !.allow = TRUE]

(* compute_track begins with get_satellite_by_key(satellite_key), whose    *)
(* allow_network is True by default; the route lets through a step between  *)
(* 1 and 120 only                                                           *)
StartTrackRequest(t, key, start, end, step) ==
    Begin(t, "resolve", "g_key", TrackLocals("range", key, start, end, step, 0))

(* compute_track_now begins with the checks of minutes and step_seconds *)
StartTrackNowRequest(t, key, minutes, step) ==
    Begin(t, "track_now", "n_check",
          TrackLocals("now", key, now, now + 60 * minutes, step, minutes))

(* the two checks, then get_satellite_by_key(satellite_key, allow_network=True) *)
TrackNowValidate(t) ==
    /\ pc[t] = "n_check"
    /\ LET l == loc[t]
       IN IF l.minutes < 1 \/ l.minutes > 180 \/ l.step < 1 \/ l.step > 120
          THEN Done(t, Raise("ValueError")) /\ UNCHANGED op
          ELSE /\ op' = [op EXCEPT ![t] = "resolve"]
               /\ Goto(t, "g_key")
               /\ UNCHANGED result
    /\ UNCHANGED <<now, ticks, calls, tleFile, tmpFile, metaFile,
                   _LAST_REFRESH_ATTEMPT, _CACHE, loc, contacts, snap>>

(* get_satellite_by_key has returned the handle to the service, which goes *)
(* on: compute_track with the parsing and the test of the range,            *)
(* compute_track_now with the samples                                       *)
TrackResolved(t) ==
    /\ pc[t] = "done"
    /\ op[t] = "resolve"
    /\ "form" \in DOMAIN loc[t]
    /\ result[t].kind = "return"
    /\ op' = [op EXCEPT ![t] = IF loc[t].form = "range" THEN "track" ELSE "track_now"]
    /\ Goto(t, "t_run")
    /\ UNCHANGED <<now, ticks, calls, tleFile, tmpFile, metaFile,
                   _LAST_REFRESH_ATTEMPT, _CACHE, loc, contacts, snap, result>>

NextReject ==
    \/ \E w \in TrackWindows, step \in TrackSteps :
          StartTrackRequest(1, ISS, now, now + w, step)
    \/ \E minutes \in NowMinutes, step \in NowSteps :
          StartTrackNowRequest(1, ISS, minutes, step)
    \/ TrackNowValidate(1)
    \/ ResolveStep(1)
    \/ RefreshStep(1)
    \/ TrackResolved(1)
    \/ ComputeTrack(1)
    \/ ComputeTrackNow(1)

SpecReject == Init /\ [][NextReject]_vars

(* C26: a ground-track request rejected for its time range or for a        *)
(* numeric parameter out of bounds has contacted no source and has left     *)
(* element files, metadata files and the attempt ledger as they were when   *)
(* it arrived.                                                              *)
C26_RejectedBeforeAnyEffect ==
    \A t \in Threads :
        (pc[t] = "done" /\ op[t] \in {"track", "track_now"}
            /\ result[t] = Raise("ValueError"))
        => contacts[t] = <<>> /\ Store = snap[t]

(* the element file of catnr c held a record of c, by the reader of the    *)
(* store, when the call of thread t began                                   *)
ValidLocalAtStart(t, c) ==
    /\ snap[t].tle[c].exists
    /\ _read_tle_file(snap[t].tle[c].text, c) # <<>>

(* C27: the service-level fetch contacts a network source only when no     *)
(* valid local element file exists (and the cache has no live entry), and   *)
(* a record it returns from the network is by then in the cache and in the  *)
(* local element file.                                                      *)
C27_FetchOrder ==
    \A t \in Threads :
        (op[t] = "fetch" /\ contacts[t] # <<>>)
        => LET c == loc[t].catnr
           IN /\ ~ValidLocalAtStart(t, c)
              /\ (pc[t] = "done" /\ result[t].kind = "return")
                 => /\ _cache_get(c) = result[t].handle
                    /\ tleFile[c].exists
                    /\ tleFile[c].text = TleText(result[t].handle[1])
====
